---- MODULE Spec2Model ----
(***************************************************************************)
(* Model of crous_notifier.py: the per-target run of process_target        *)
(* (fetch, diff, alert, persist, daily report) and the loop of the main    *)
(* block over TARGETS_TO_MONITOR, invoked repeatedly by an external        *)
(* scheduler.  A dictionary is a sequence of <<key, value>> items in       *)
(* insertion order; a CSV file is a record [exists, rows] whose rows are   *)
(* dictionaries in header order; "None" is the empty option <<>> and a     *)
(* returned list l is the option <<l>>.                                    *)
(***************************************************************************)
EXTENDS Integers, Sequences, FiniteSets, TLC

\* ------------------------------------------------------------------ bounds
MaxRuns == 3
MaxTick == 5

\* ------------------------------------------------------- dictionaries, CSV
HasKey(d, k) == \E i \in DOMAIN d : d[i][1] = k

\* d.get(k, default)
GetOr(d, k, default) ==
    IF HasKey(d, k) THEN d[CHOOSE i \in DOMAIN d : d[i][1] = k][2] ELSE default

\* the value csv.DictWriter writes for column k: a missing key is written as ''
Get(d, k) == GetOr(d, k, "")

\* dict.update({k: v}): an existing key keeps its position, a new one is appended
Update(d, k, v) ==
    IF HasKey(d, k)
    THEN [i \in DOMAIN d |-> IF d[i][1] = k THEN <<k, v>> ELSE d[i]]
    ELSE Append(d, <<k, v>>)

\* the residence dictionary as scrape_crous_page fills it: name, link, price,
\* address, details
Residence(name, link, price, address, details) ==
    << <<"name", name>>, <<"link", link>>, <<"price", price>>,
       <<"address", address>>, <<"details", details>> >>

\* one row as csv.DictWriter writes it and csv.DictReader reads it back: the
\* values of the header's columns, in header order
DictRow(d, headers) ==
    [i \in DOMAIN headers |-> <<headers[i], Get(d, headers[i])>>]

NoFile == [exists |-> FALSE, rows |-> <<>>]

read_csv_to_list(file) == IF ~file.exists THEN <<>> ELSE file.rows

write_list_to_csv_merge(file, data_list, headers) ==
    [exists |-> TRUE,
     rows |-> file.rows \o [i \in DOMAIN data_list |-> DictRow(data_list[i], headers)]]

write_list_to_csv(file, data_list, headers) ==
    [exists |-> TRUE,
     rows |-> [i \in DOMAIN data_list |-> DictRow(data_list[i], headers)]]

\* opening the file in mode 'w' instead of 'a'
append_list_to_csv_truncating(file, data_list, headers) ==
    [exists |-> TRUE,
     rows |-> [i \in DOMAIN data_list |-> DictRow(data_list[i], headers)]]

append_list_to_csv(file, data_list, headers) ==
    [exists |-> TRUE,
     rows |-> file.rows \o [i \in DOMAIN data_list |-> DictRow(data_list[i], headers)]]

\* hashing every item but the price
make_dict_hashable_noprice(d) == {d[i] : i \in {j \in DOMAIN d : d[j][1] # "price"}}

\* hashing the items in their order instead of as a set
make_dict_hashable_ordered(d) == {<<"items", d>>}

\* frozenset(d.items())
make_dict_hashable(d) == {d[i] : i \in DOMAIN d}

\* dict(h) for a frozenset of items: the items in the iteration order of the
\* frozenset, which is some fixed order
RECURSIVE dict(_)
dict(h) ==
    IF h = {} THEN <<>>
    ELSE LET it == CHOOSE x \in h : TRUE IN <<it>> \o dict(h \ {it})

\* ------------------------------------------------------------ price parsing
Digits == {"0", "1", "2", "3", "4", "5", "6", "7", "8", "9"}

DigitVal(c) ==
    CASE c = "0" -> 0 [] c = "1" -> 1 [] c = "2" -> 2 [] c = "3" -> 3
      [] c = "4" -> 4 [] c = "5" -> 5 [] c = "6" -> 6 [] c = "7" -> 7
      [] c = "8" -> 8 [] c = "9" -> 9

\* the characters of the price labels of the modelled site
Chars(s) ==
    CASE s = "410 €" -> <<"4", "1", "0", " ", "€">>
      [] s = "de 300 à 450 €" ->
            <<"d", "e", " ", "3", "0", "0", " ", "à", " ", "4", "5", "0", " ", "€">>
      [] s = "N/A" -> <<"N", "/", "A">>
      [] s = "1 234,50 €" -> <<"1", " ", "2", "3", "4", ",", "5", "0", " ", "€">>
      [] s = "15 €" -> <<"1", "5", " ", "€">>
      [] s = "12 000 €" -> <<"1", "2", " ", "0", "0", "0", " ", "€">>
      [] s = "0" -> <<"0">>
      [] s = "" -> <<>>

RECURSIVE Filter(_, _)
Filter(cs, keep) ==
    IF cs = <<>> THEN <<>>
    ELSE IF Head(cs) \in keep THEN <<Head(cs)>> \o Filter(Tail(cs), keep)
         ELSE Filter(Tail(cs), keep)

RECURSIVE Without(_, _)
Without(cs, c) ==
    IF cs = <<>> THEN <<>>
    ELSE IF Head(cs) = c THEN Without(Tail(cs), c)
         ELSE <<Head(cs)>> \o Without(Tail(cs), c)

RECURSIVE LStrip(_)
LStrip(cs) == IF cs # <<>> /\ Head(cs) = " " THEN LStrip(Tail(cs)) ELSE cs

RECURSIVE RStrip(_)
RStrip(cs) ==
    IF cs # <<>> /\ cs[Len(cs)] = " " THEN RStrip(SubSeq(cs, 1, Len(cs) - 1)) ELSE cs

Strip(cs) == RStrip(LStrip(cs))

Contains(cs, c) == \E i \in DOMAIN cs : cs[i] = c

\* cs.split(c)[0]
BeforeFirst(cs, c) ==
    LET i == CHOOSE j \in DOMAIN cs : cs[j] = c /\ \A k \in 1..(j - 1) : cs[k] # c
    IN  SubSeq(cs, 1, i - 1)

RECURSIVE DecVal(_)
DecVal(ds) ==
    IF ds = <<>> THEN 0 ELSE 10 * DecVal(SubSeq(ds, 1, Len(ds) - 1)) + DigitVal(ds[Len(ds)])

\* float() accepts a string of digits with at most one point and at least one digit
IsFloat(cs) ==
    /\ Cardinality({i \in DOMAIN cs : cs[i] = "."}) <= 1
    /\ \E i \in DOMAIN cs : cs[i] \in Digits

\* int(float(cs)): the digits before the point
IntOfFloat(cs) == DecVal(IF Contains(cs, ".") THEN BeforeFirst(cs, ".") ELSE cs)

ParseFailure == 9999

\* price_clean as it is passed to float()
price_clean(residence) ==
    LET price_str == Chars(GetOr(residence, "price", "0"))
        c1 == Strip(Without(price_str, "€"))
        c2 == IF Contains(c1, "à") THEN Strip(BeforeFirst(c1, "à")) ELSE c1
        c3 == Filter(c2, Digits \cup {",", "."})
    IN  [i \in DOMAIN c3 |-> IF c3[i] = "," THEN "." ELSE c3[i]]

\* int(float(price_clean)), or 9999 when float() raises ValueError
get_price_as_int(residence) ==
    IF IsFloat(price_clean(residence)) THEN IntOfFloat(price_clean(residence))
    ELSE ParseFailure

\* list.sort(key=get_price_as_int): stable, by insertion
RECURSIVE InsertByPrice(_, _)
InsertByPrice(sorted, x) ==
    IF sorted = <<>> THEN <<x>>
    ELSE IF get_price_as_int(sorted[Len(sorted)]) <= get_price_as_int(x)
         THEN Append(sorted, x)
         ELSE Append(InsertByPrice(SubSeq(sorted, 1, Len(sorted) - 1), x), sorted[Len(sorted)])

RECURSIVE SortByPrice(_)
SortByPrice(l) ==
    IF l = <<>> THEN <<>>
    ELSE InsertByPrice(SortByPrice(SubSeq(l, 1, Len(l) - 1)), l[Len(l)])

\* the lists that enumerate a set once each: the iteration orders of a Python set
Enumerations(S) ==
    {l \in [1..Cardinality(S) -> S] : \A x \in S : \E i \in DOMAIN l : l[i] = x}

\* -------------------------------------------------------------------- time
\* the wall clock in CET is a tick: the times of day the report window
\* distinguishes (first minute, last minute, after, before), from the opening
\* of the window of the first day on
Slots == << <<22, 0>>, <<23, 30>>, <<23, 31>>, <<21, 59>> >>

\* the last slot of a cycle is of the next day
Day(tick) == (tick \div Len(Slots)) + 1

Hour(tick) == Slots[((tick - 1) % Len(Slots)) + 1][1]

Minute(tick) == Slots[((tick - 1) % Len(Slots)) + 1][2]

\* now_cet.strftime('%Y-%m-%d')
strftime_ymd(now) == <<"%Y-%m-%d", Day(now)>>

\* now_cet.isoformat()
isoformat(now) == <<"iso", Day(now), Hour(now), Minute(now)>>

\* now_cet.strftime("%Y-%m-%d %H:%M:%S %Z")
strftime_full(now) == <<"%Y-%m-%d %H:%M:%S %Z", Day(now), Hour(now), Minute(now)>>

\* now_cet.strftime('%H:%M:%S')
strftime_hms(now) == <<"%H:%M:%S", Hour(now), Minute(now)>>

\* timestamp.startswith(today_str): the date part of the timestamp is today_str
startswith(timestamp, today_str) == timestamp[2] = today_str[2]

\* ----------------------------------------------------------- configuration
NumTargets == 2

Targets == 1..NumTargets

folder_name_shared == <<".", ".">>

folder_name == <<".", "data_bordeaux">>

\* the deployments: the flags of TARGETS_TO_MONITOR as committed, with the mail
\* credentials in the environment; and an edit of the flags that disables the
\* alert of one target and the report of the other, without the credentials
Deployments ==
    { [credentials |-> TRUE,
       config |-> << [send_immediate_alert |-> TRUE, send_daily_report |-> TRUE],
                     [send_immediate_alert |-> TRUE, send_daily_report |-> TRUE] >>],
      [credentials |-> FALSE,
       config |-> << [send_immediate_alert |-> FALSE, send_daily_report |-> TRUE],
                     [send_immediate_alert |-> TRUE, send_daily_report |-> FALSE] >>] }

\* ------------------------------------------------------------ the site
ResA == Residence("Res A", "/l1", "de 300 à 450 €", "1 rue A", "T1 | 18 m2")
ResB == Residence("Res B", "/l2", "N/A", "2 rue B", "")
\* the listing of ResA with another price, one above the value
\* get_price_as_int returns for a price it cannot parse
ResC == Residence("Res A", "/l1", "12 000 €", "1 rue A", "T1 | 18 m2")

\* what the pages of each target's url can list, in page order; the second
\* url searches a part of the area of the first
Pages ==
    << { <<ResA, ResB>>, <<ResB, ResA>>, <<ResB, ResC>> },
       { <<>>, <<ResB>> } >>

\* what requests.get and raise_for_status do during one scrape: every page is
\* served, or a request raises requests.exceptions.RequestException
Responses(t) ==
    {[status |-> "ok", cards |-> p] : p \in Pages[t]}
        \cup {[status |-> "RequestException", cards |-> <<>>]}

NoResponse == "none"

None == <<>>

Some(v) == <<v>>

scrape_crous_page_raises(resp) ==
    IF resp.status = "RequestException"
    THEN [raised |-> TRUE, value |-> None]
    ELSE [raised |-> FALSE, value |-> Some(resp.cards)]

scrape_crous_page_empty(resp) ==
    IF resp.status = "RequestException"
    THEN [raised |-> FALSE, value |-> Some(<<>>)]
    ELSE [raised |-> FALSE, value |-> Some(resp.cards)]

\* scrape_crous_page: the cards of all pages, or None when a request raised
\* requests.exceptions.RequestException; nothing is raised to the caller
scrape_crous_page(resp) ==
    IF resp.status = "RequestException"
    THEN [raised |-> FALSE, value |-> None]
    ELSE [raised |-> FALSE, value |-> Some(resp.cards)]

SmtpOutcomes == {"ok", "SMTPException"}

send_email_raises(credentials, smtp) ==
    IF ~credentials THEN "no_credentials"
    ELSE IF smtp = "ok" THEN "sent" ELSE "raised"

\* send_email: returns None in every case; the model keeps what happened
send_email(credentials, smtp) ==
    IF ~credentials THEN "no_credentials"
    ELSE IF smtp = "ok" THEN "sent" ELSE "failed"

\* ------------------------------------------------------------------ state
VARIABLES
    available,            \* available_residences.csv of each target
    activity_log,         \* daily_activity_log.csv of each target
    removed_log,          \* removed_residences.log.csv of each target
    report_log,           \* report_log.csv of each target
    clock,                \* the wall clock, a tick
    credentials,          \* all of BREVO_LOGIN, BREVO_API_KEY, TO_EMAIL, FROM_EMAIL are set
    config,               \* the flags of TARGETS_TO_MONITOR
    runs,                 \* how many times process_target was entered
    ti,                   \* the target the loop of the main block is at
    pc,                   \* where process_target of that target is
    raised,               \* the exception that ended the invocation, or "none"
    logged_errors,        \* the targets for which this invocation printed a fetch
                          \* or mail error
    now_cet,              \* process_target's locals
    response,             \* how the requests of the scrape of part 1 ended
    current_residences,
    previous_residences,
    added_list,
    removed_list,
    alert_email,          \* the alert passed to send_email and what became of it
    report_email          \* the summary passed to send_email and what became of it

files == <<available, activity_log, removed_log, report_log>>

env == <<credentials, config>>

locals == <<now_cet, response, current_residences, previous_residences,
            added_list, removed_list, alert_email, report_email>>

vars == <<files, clock, env, runs, ti, pc, raised, logged_errors, locals>>

\* a snapshot header that leaves the link out
headers_without_link == <<"name", "price", "address", "details">>

headers == <<"name", "price", "address", "details", "link">>

activity_log_headers ==
    <<"timestamp_cet", "status", "name", "price", "address", "details", "link">>

removed_headers == headers \o <<"removed_timestamp">>

report_log_headers == <<"sent_date", "sent_time_cet">>

\* os.path.join(folder, name): the file of target ti is the file of every
\* target of the same folder; file_of is a file as each target finds it
Store(file_of, content) ==
    [t \in Targets |-> IF folder_name[t] = folder_name[ti] THEN content ELSE file_of[t]]

Init ==
    /\ available = [t \in Targets |-> NoFile]
    /\ activity_log = [t \in Targets |-> NoFile]
    /\ removed_log = [t \in Targets |-> NoFile]
    /\ report_log = [t \in Targets |-> NoFile]
    /\ clock = 1
    /\ \E d \in Deployments : credentials = d.credentials /\ config = d.config
    /\ runs = 0
    /\ ti = 1
    /\ pc = "begin"
    /\ raised = "none"
    /\ logged_errors = {}
    /\ now_cet = 1
    /\ response = NoResponse
    /\ current_residences = None
    /\ previous_residences = <<>>
    /\ added_list = <<>>
    /\ removed_list = <<>>
    /\ alert_email = None
    /\ report_email = None

\* the locals of a process_target that is not running
ResetLocals ==
    /\ now_cet' = clock
    /\ response' = NoResponse
    /\ current_residences' = None
    /\ previous_residences' = <<>>
    /\ added_list' = <<>>
    /\ removed_list' = <<>>
    /\ alert_email' = None
    /\ report_email' = None

\* an exception leaves process_target and the loop of the main block: the
\* process ends with its locals
Crash(exception) ==
    /\ pc' = "crashed"
    /\ raised' = exception
    /\ ResetLocals

\* process_target is entered for target ti: now_cet = datetime.now(CET)
Begin ==
    /\ pc = "begin"
    /\ runs < MaxRuns
    /\ runs' = runs + 1
    /\ \E tick \in clock..MaxTick : clock' = tick /\ now_cet' = tick
    /\ pc' = "scrape"
    /\ UNCHANGED <<files, env, ti, raised, logged_errors, response, current_residences,
                   previous_residences, added_list, removed_list, alert_email,
                   report_email>>

\* current_residences = scrape_crous_page(url)
Scrape ==
    /\ pc = "scrape"
    /\ \E resp \in Responses(ti) :
         LET r == scrape_crous_page(resp) IN
         /\ logged_errors' = IF resp.status = "ok" THEN logged_errors
                              ELSE logged_errors \cup {ti}
         /\ IF r.raised
            THEN Crash("RequestException")
            ELSE
              /\ response' = resp.status
              /\ current_residences' = r.value
              /\ pc' = IF r.value = None THEN "report_check" ELSE "read_previous"
              /\ UNCHANGED <<raised, now_cet, previous_residences, added_list,
                             removed_list, alert_email, report_email>>
    /\ UNCHANGED <<files, clock, env, runs, ti>>

\* {make_dict_hashable(d) for d in l}
HashSet(l) == {make_dict_hashable(l[i]) : i \in DOMAIN l}

added_of_all(current_set, previous_set) == current_set

\* current_set - previous_set
added_of(current_set, previous_set) == current_set \ previous_set

\* previous_set - current_set
removed_of(current_set, previous_set) == previous_set \ current_set

changed_always(current_set, previous_set) == TRUE

\* current_set != previous_set
changed(current_set, previous_set) == current_set # previous_set

\* [dict(h) for h in S], in an iteration order of S, then sorted by price
SortedDicts(S) ==
    {SortByPrice([i \in DOMAIN e |-> dict(e[i])]) : e \in Enumerations(S)}

\* previous_residences = read_csv_to_list(available_csv), the two sets, and when
\* they differ the sorted lists of the delta and current_residences.sort()
ReadPrevious ==
    /\ pc = "read_previous"
    /\ LET previous == read_csv_to_list(available[ti])
           current_set == HashSet(current_residences[1])
           previous_set == HashSet(previous)
       IN  /\ previous_residences' = previous
           /\ IF changed(current_set, previous_set)
              THEN /\ added_list' \in SortedDicts(added_of(current_set, previous_set))
                   /\ removed_list' \in SortedDicts(removed_of(current_set, previous_set))
                   /\ current_residences' = Some(SortByPrice(current_residences[1]))
                   /\ pc' = "alert"
              ELSE /\ UNCHANGED <<added_list, removed_list, current_residences>>
                   /\ pc' = "report_check"
    /\ UNCHANGED <<files, clock, env, runs, ti, raised, logged_errors, now_cet,
                   response, alert_email, report_email>>

\* logging the added items only
activity_to_log_added_only ==
    [i \in DOMAIN added_list |->
        Update(Update(added_list[i], "timestamp_cet", isoformat(now_cet)), "status", "added")]

\* activity_to_log: a copy of every added item, then of every removed item, with
\* the time of the run and the status
activity_to_log ==
    [i \in DOMAIN added_list |->
        Update(Update(added_list[i], "timestamp_cet", isoformat(now_cet)), "status", "added")]
    \o
    [i \in DOMAIN removed_list |->
        Update(Update(removed_list[i], "timestamp_cet", isoformat(now_cet)), "status", "removed")]

PersistOrderSnapshotFirst == <<"write_snapshot", "log_activity", "log_removed">>

\* the order of the writes of a run that detected a change
PersistOrder == <<"log_activity", "write_snapshot", "log_removed">>

\* "if activity_to_log:", the unconditional snapshot write, "if removed_list:"
Applies(step) ==
    CASE step = "log_activity" -> activity_to_log # <<>>
      [] step = "write_snapshot" -> TRUE
      [] step = "log_removed" -> removed_list # <<>>

\* the first write after the k-th that applies, or the report check
AfterPersist(k) ==
    LET later == {j \in DOMAIN PersistOrder : j > k /\ Applies(PersistOrder[j])}
    IN  IF later = {} THEN "report_check"
        ELSE PersistOrder[CHOOSE j \in later : \A i \in later : j <= i]

Position(step) == CHOOSE k \in DOMAIN PersistOrder : PersistOrder[k] = step

\* "if send_alert:" the alert is composed and passed to send_email
Alert ==
    /\ pc = "alert"
    /\ IF config[ti].send_immediate_alert
       THEN \E smtp \in SmtpOutcomes :
              LET result == send_email(credentials, smtp) IN
              /\ logged_errors' = IF result = "sent" THEN logged_errors
                                   ELSE logged_errors \cup {ti}
              /\ IF result = "raised"
                 THEN Crash("SMTPException")
                 ELSE
                   /\ alert_email' = Some([added |-> added_list, removed |-> removed_list,
                                           all_available |-> current_residences[1],
                                           result |-> result])
                   /\ pc' = AfterPersist(0)
                   /\ UNCHANGED <<raised, now_cet, response, current_residences,
                                  previous_residences, added_list, removed_list,
                                  report_email>>
       ELSE /\ pc' = AfterPersist(0)
            /\ UNCHANGED <<raised, logged_errors, locals>>
    /\ UNCHANGED <<files, clock, env, runs, ti>>

\* append_list_to_csv(activity_log_csv, activity_to_log, activity_log_headers)
LogActivity ==
    /\ pc = "log_activity"
    /\ activity_log' = Store(activity_log,
                          append_list_to_csv(activity_log[ti], activity_to_log, activity_log_headers))
    /\ pc' = AfterPersist(Position("log_activity"))
    /\ UNCHANGED <<available, removed_log, report_log, clock, env, runs, ti,
                   raised, logged_errors, locals>>

\* write_list_to_csv(available_csv, current_residences, headers)
WriteSnapshot ==
    /\ pc = "write_snapshot"
    /\ available' = Store(available,
                          write_list_to_csv(available[ti], current_residences[1], headers))
    /\ pc' = AfterPersist(Position("write_snapshot"))
    /\ UNCHANGED <<activity_log, removed_log, report_log, clock, env, runs, ti,
                   raised, logged_errors, locals>>

\* every removed item gets its removed_timestamp and is appended to the removal log
LogRemoved ==
    /\ pc = "log_removed"
    /\ removed_list' = [i \in DOMAIN removed_list |->
                           Update(removed_list[i], "removed_timestamp", strftime_full(now_cet))]
    /\ removed_log' = Store(removed_log,
                          append_list_to_csv(removed_log[ti], removed_list', removed_headers))
    /\ pc' = AfterPersist(Position("log_removed"))
    /\ UNCHANGED <<available, activity_log, report_log, clock, env, runs, ti,
                   raised, logged_errors, now_cet, response, current_residences, previous_residences,
                   added_list, alert_email, report_email>>

\* (now_cet.hour == 22) or (now_cet.hour == 23 and now_cet.minute <= 30)
is_report_time(now) == (Hour(now) = 22) \/ (Hour(now) = 23 /\ Minute(now) <= 30)

sent_today_never(log, today_str) == FALSE

\* any(log.get('sent_date') == today_str for log in report_log)
sent_today(log, today_str) ==
    \E i \in DOMAIN log : GetOr(log[i], "sent_date", None) = today_str

report_gate_ignores_flag(now, log, send_summary) ==
    is_report_time(now) /\ ~sent_today(log, strftime_ymd(now))

\* is_report_time and not sent_today and send_summary
report_gate(now, log, send_summary) ==
    is_report_time(now) /\ ~sent_today(log, strftime_ymd(now)) /\ send_summary

\* a gate that notes the date in report_log as it is evaluated
ReportCheckRecording ==
    /\ pc = "report_check"
    /\ pc' = IF report_gate(now_cet, read_csv_to_list(report_log[ti]),
                            config[ti].send_daily_report)
             THEN "summary" ELSE "finished"
    /\ report_log' = Store(report_log,
                          append_list_to_csv(report_log[ti],
                                             << << <<"sent_date", strftime_ymd(now_cet)>> >> >>,
                                             report_log_headers))
    /\ UNCHANGED <<available, activity_log, removed_log, clock, env, runs, ti,
                   raised, logged_errors, locals>>

\* report_log = read_csv_to_list(report_log_csv) and the test of line 328
ReportCheck ==
    /\ pc = "report_check"
    /\ pc' = IF report_gate(now_cet, read_csv_to_list(report_log[ti]),
                            config[ti].send_daily_report)
             THEN "summary" ELSE "finished"
    /\ UNCHANGED <<files, clock, env, runs, ti, raised, logged_errors, locals>>

Select(l, status) ==
    LET Test(row) == /\ startswith(GetOr(row, "timestamp_cet", <<"", 0>>), strftime_ymd(now_cet))
                     /\ GetOr(row, "status", None) = status
    IN  SelectSeq(l, Test)

final_residences_no_fallback(scraped, snapshot) ==
    IF scraped = None THEN <<>> ELSE scraped[1]

\* final_residences = scrape_crous_page(url), and the rows of the snapshot
\* file when that is None
final_residences_of(scraped, snapshot) ==
    IF scraped = None THEN read_csv_to_list(snapshot) ELSE scraped[1]

\* the summary: today's activity, a fresh scrape or else the persisted
\* snapshot, everything sorted, composed and passed to send_email
Summary ==
    /\ pc = "summary"
    /\ \E resp \in Responses(ti), smtp \in SmtpOutcomes :
         LET full_activity_log == read_csv_to_list(activity_log[ti])
             r == scrape_crous_page(resp)
             final_residences == final_residences_of(r.value, available[ti])
             result == send_email(credentials, smtp)
         IN  /\ logged_errors' = IF resp.status = "ok" /\ result = "sent"
                                  THEN logged_errors ELSE logged_errors \cup {ti}
             /\ IF r.raised \/ result = "raised"
                THEN Crash(IF r.raised THEN "RequestException" ELSE "SMTPException")
                ELSE
                  /\ report_email' =
                        Some([added |-> SortByPrice(Select(full_activity_log, "added")),
                              removed |-> SortByPrice(Select(full_activity_log, "removed")),
                              all_available |-> SortByPrice(final_residences),
                              scraped |-> r.value # None,
                              result |-> result])
                  /\ pc' = "record_sent"
                  /\ UNCHANGED <<raised, now_cet, response, current_residences,
                                 previous_residences, added_list, removed_list,
                                 alert_email>>
    /\ UNCHANGED <<files, clock, env, runs, ti>>

\* append_list_to_csv(report_log_csv, log_entry, headers=['sent_date', 'sent_time_cet'])
RecordSent ==
    /\ pc = "record_sent"
    /\ LET log_entry == << << <<"sent_date", strftime_ymd(now_cet)>>,
                              <<"sent_time_cet", strftime_hms(now_cet)>> >> >>
       IN  report_log' = Store(report_log,
                          append_list_to_csv(report_log[ti], log_entry, report_log_headers))
    /\ pc' = "finished"
    /\ UNCHANGED <<available, activity_log, removed_log, clock, env, runs, ti,
                   raised, logged_errors, locals>>

\* the places where process_target opens a file
StoragePoints == {"read_previous", "log_activity", "write_snapshot", "log_removed",
                  "report_check", "summary", "record_sent"}

\* open() raises OSError: nothing catches it, the file is as it was
StorageError ==
    /\ pc \in StoragePoints
    /\ Crash("OSError")
    /\ UNCHANGED <<files, clock, env, runs, ti, logged_errors>>

\* "for target in TARGETS_TO_MONITOR": process_target returned
LoopNext ==
    /\ pc = "finished"
    /\ IF ti < NumTargets
       THEN ti' = ti + 1 /\ pc' = "begin"
       ELSE ti' = ti /\ pc' = "exit"
    /\ ResetLocals
    /\ UNCHANGED <<files, clock, env, runs, raised, logged_errors>>

\* the scheduler starts the script again, at a later instant of the clock; the
\* targets of one invocation may read the same instant
Invoke ==
    /\ pc \in {"exit", "crashed"}
    /\ runs < MaxRuns
    /\ ti' = 1
    /\ pc' = "begin"
    /\ raised' = "none"
    /\ logged_errors' = {}
    /\ clock < MaxTick
    /\ clock' = clock + 1
    /\ UNCHANGED <<files, env, runs, locals>>

Next ==
    \/ Begin
    \/ Scrape
    \/ ReadPrevious
    \/ Alert
    \/ LogActivity
    \/ WriteSnapshot
    \/ LogRemoved
    \/ ReportCheck
    \/ Summary
    \/ RecordSent
    \/ StorageError
    \/ LoopNext
    \/ Invoke

Spec == Init /\ [][Next]_vars

\* the program on a storage of which no operation fails
NextNoStorageError ==
    \/ Begin
    \/ Scrape
    \/ ReadPrevious
    \/ Alert
    \/ LogActivity
    \/ WriteSnapshot
    \/ LogRemoved
    \/ ReportCheck
    \/ Summary
    \/ RecordSent
    \/ LoopNext
    \/ Invoke

SpecNoStorageError == Init /\ [][NextNoStorageError]_vars

\* ------------------------------------------------------------- properties
Fields == {"name", "link", "price", "address", "details"}

\* a listing as its five field values, whatever the order of the items
Rec(d) == [k \in Fields |-> Get(d, k)]

RecSet(l) == {Rec(l[i]) : i \in DOMAIN l}

\* the current set C and the persisted set P of the run in progress
CurrentRecs == IF current_residences = None THEN {} ELSE RecSet(current_residences[1])

PreviousRecs == RecSet(previous_residences)

IsAppend(old, new) == Len(new) >= Len(old) /\ SubSeq(new, 1, Len(old)) = old

Gained(old, new) == SubSeq(new, Len(old) + 1, Len(new))

\* the last n rows, or all of them when there are fewer
LastRows(rows, n) ==
    SubSeq(rows, IF Len(rows) > n THEN Len(rows) - n + 1 ELSE 1, Len(rows))

\* among rows, those of the given status are one per listing of S
OnePerListing(rows, status, S) ==
    LET idx == {i \in DOMAIN rows : Get(rows[i], "status") = status}
    IN  /\ Cardinality(idx) = Cardinality(S)
        /\ {Rec(rows[i]) : i \in idx} = S

\* rows are the activity records of this run's delta, stamped with the run time
RunActivity(rows) ==
    LET added == CurrentRecs \ PreviousRecs
        removed == PreviousRecs \ CurrentRecs
    IN  /\ Len(rows) = Cardinality(added) + Cardinality(removed)
        /\ OnePerListing(rows, "added", added)
        /\ OnePerListing(rows, "removed", removed)
        /\ \A i \in DOMAIN rows : Get(rows[i], "timestamp_cet") = isoformat(now_cet)

\* rows are the removal records of this run's delta
RunRemovals(rows) ==
    LET removed == PreviousRecs \ CurrentRecs
    IN  /\ Len(rows) = Cardinality(removed)
        /\ RecSet(rows) = removed
        /\ \A i \in DOMAIN rows : Get(rows[i], "removed_timestamp") = strftime_full(now_cet)

SentDates(t) == {Get(report_log[t].rows[i], "sent_date") : i \in DOMAIN report_log[t].rows}

InWindow(tick) == tick \in {k \in 1..MaxTick : Slots[((k - 1) % Len(Slots)) + 1] \in
                               {<<22, 0>>, <<23, 30>>}}

\* C1: once a report is recorded for a date the daily report is not composed
\* again on that date: whenever a summary is being composed or recorded no row
\* of the target's report_log carries today's date, and no two rows of a
\* report_log carry the same sent_date
C1_OneReportPerDate ==
    /\ \A t \in Targets : \A i, j \in DOMAIN report_log[t].rows :
          i # j => Get(report_log[t].rows[i], "sent_date")
                     # Get(report_log[t].rows[j], "sent_date")
    /\ pc \in {"summary", "record_sent"} => strftime_ymd(now_cet) \notin SentDates(ti)

\* a later run inside the window of a date already recorded ended without a summary
C1_Witness ==
    /\ pc = "finished"
    /\ InWindow(now_cet)
    /\ config[ti].send_daily_report
    /\ strftime_ymd(now_cet) \in SentDates(ti)
    /\ report_email = None

\* C2: a row is in report_log only for a summary that was sent: a run that ends
\* with a summary that failed or had no credentials leaves no row for today
C2_RecordOnlyIfSent ==
    (pc = "finished" /\ report_email # None /\ report_email[1].result # "sent")
        => strftime_ymd(now_cet) \notin SentDates(ti)

\* C3: a write of the snapshot replaces it by the current set, a write of the
\* activity log or of the removal log appends this run's records and nothing
\* else, and when the change phase of a run that saw C # P ends the snapshot
\* is C and both logs end with this run's records
C3_Persisted ==
    [][ /\ available' # available =>
              /\ RecSet(available'[ti].rows) = CurrentRecs
              /\ Len(available'[ti].rows) = Len(current_residences[1])
              /\ \A t \in Targets \ {ti} : available'[t] = available[t]
        /\ activity_log' # activity_log =>
              /\ IsAppend(activity_log[ti].rows, activity_log'[ti].rows)
              /\ RunActivity(Gained(activity_log[ti].rows, activity_log'[ti].rows))
        /\ removed_log' # removed_log =>
              /\ IsAppend(removed_log[ti].rows, removed_log'[ti].rows)
              /\ RunRemovals(Gained(removed_log[ti].rows, removed_log'[ti].rows))
        /\ (pc \in {"alert", "log_activity", "write_snapshot", "log_removed"}
              /\ pc' = "report_check") =>
              /\ CurrentRecs # PreviousRecs
              /\ RecSet(available'[ti].rows) = CurrentRecs
              /\ RunActivity(LastRows(activity_log'[ti].rows,
                                      Len(added_list) + Len(removed_list)))
              /\ RunRemovals(LastRows(removed_log'[ti].rows, Len(removed_list)))
      ]_vars

\* the run that found {ResA, ResB} persisted and fetched {ResB, ResC} has
\* finished its change phase
C3_Witness ==
    /\ pc = "report_check"
    /\ PreviousRecs = {Rec(ResA), Rec(ResB)}
    /\ CurrentRecs = {Rec(ResB), Rec(ResC)}
    /\ RecSet(available[ti].rows) = CurrentRecs
    /\ Len(activity_log[ti].rows) >= 4
    /\ removed_log[ti].rows # <<>>

\* C4: the delta of a run is added = C \ P and removed = P \ C over whole
\* records compared field by field, each listing once, whatever the order of
\* the listings and of the items of a record
C4_Delta ==
    pc = "alert" =>
        /\ RecSet(added_list) = CurrentRecs \ PreviousRecs
        /\ RecSet(removed_list) = PreviousRecs \ CurrentRecs
        /\ Len(added_list) = Cardinality(CurrentRecs \ PreviousRecs)
        /\ Len(removed_list) = Cardinality(PreviousRecs \ CurrentRecs)

\* a delta between a scraped list and rows read from the file, whose items are
\* in another order, with a listing in common
C4_Witness ==
    /\ pc = "alert"
    /\ added_list # <<>>
    /\ removed_list # <<>>
    /\ CurrentRecs \cap PreviousRecs # {}
    /\ \E i \in DOMAIN previous_residences : \E j \in DOMAIN current_residences[1] :
          /\ Rec(previous_residences[i]) = Rec(current_residences[1][j])
          /\ previous_residences[i] # current_residences[1][j]

\* C5: when the fetched set equals the persisted one the run goes from the
\* comparison straight to the report check, writes no file and composes no alert
C5_NoChangeNoEffect ==
    [][ (pc = "read_previous" /\ pc' # "crashed"
           /\ CurrentRecs = RecSet(read_csv_to_list(available[ti]))) =>
              /\ pc' = "report_check"
              /\ files' = files
              /\ alert_email' = None
              /\ added_list' = <<>> /\ removed_list' = <<>>
      ]_vars

\* a run whose fetch returned the non-empty persisted set is at the report check
C5_Witness ==
    /\ pc = "report_check"
    /\ response = "ok"
    /\ CurrentRecs # {}
    /\ CurrentRecs = RecSet(available[ti].rows)
    /\ added_list = <<>> /\ removed_list = <<>>
    /\ alert_email = None

\* C6: a scrape that ends in a request error takes the run straight to the
\* report check: no exception leaves process_target, no file changes, no alert
\* is composed and no delta is computed from the failure
C6_FetchFailureSkipsDetection ==
    [][ (pc = "scrape" /\ (response' = "RequestException" \/ raised' = "RequestException")) =>
              /\ pc' = "report_check"
              /\ raised' = "none"
              /\ files' = files
              /\ current_residences' = None
              /\ alert_email' = None
              /\ added_list' = <<>> /\ removed_list' = <<>>
      ]_vars

\* a run whose fetch failed is at the report check with its snapshot still there
C6_Witness ==
    /\ pc = "report_check"
    /\ response = "RequestException"
    /\ available[ti].rows # <<>>
    /\ alert_email = None

\* the change phase of the run in progress is just over and it had found a delta
ChangePersisted ==
    /\ pc = "report_check"
    /\ added_list # <<>> \/ removed_list # <<>>

\* C7: whatever became of the alert (sent, failed, no credentials, disabled),
\* no mail exception ends the run and after the change phase the snapshot is
\* the current set and both logs end with this run's records
C7_PersistDespiteAlert ==
    /\ raised # "SMTPException"
    /\ ChangePersisted =>
          /\ RecSet(available[ti].rows) = CurrentRecs
          /\ available[ti].exists
          /\ RunActivity(LastRows(activity_log[ti].rows,
                                  Len(added_list) + Len(removed_list)))
          /\ RunRemovals(LastRows(removed_log[ti].rows, Len(removed_list)))

\* a run whose alert failed to be sent has persisted a delta with a removal
C7_Witness ==
    /\ ChangePersisted
    /\ alert_email # None
    /\ alert_email[1].result = "failed"
    /\ removed_list # <<>>
    /\ RecSet(available[ti].rows) = CurrentRecs

\* C8: no fetch error and no mail error ends an invocation: only a storage
\* error does, every target that finishes is followed by the next one, and
\* the loop exits only after the last target has finished
C8_ErrorsDoNotAbortLoop ==
    [][ /\ raised' \in {"none", "OSError"}
        /\ pc' = "crashed" => raised' = "OSError"
        /\ (pc = "finished" /\ ti < NumTargets) => (pc' = "begin" /\ ti' = ti + 1)
        /\ (pc' = "exit" /\ pc # "exit") => (pc = "finished" /\ ti = NumTargets)
      ]_vars

\* the last target has finished in an invocation that printed an error for the
\* first one
C8_Witness ==
    /\ pc = "finished"
    /\ ti = NumTargets
    /\ 1 \in logged_errors

\* C9: no storage error leaves process_target: the loop is never ended by one
C9_StorageErrorContained == raised # "OSError"

\* C10 as stated: the activity log and the removal log are appended to only
\* after the snapshot holds the current set
C10_SnapshotFirst ==
    [][ (activity_log' # activity_log \/ removed_log' # removed_log) =>
              /\ available[ti].exists
              /\ RecSet(available[ti].rows) = CurrentRecs
      ]_vars

\* C10 as the code does it: the snapshot is overwritten only after the
\* activity log ends with this run's records and before the removal log has
\* them, and the removal log is appended to only after both
C10_ActivityThenSnapshotThenRemovals ==
    [][ /\ available' # available =>
              /\ RunActivity(LastRows(activity_log[ti].rows,
                                      Len(added_list) + Len(removed_list)))
              /\ removed_list # <<>> =>
                    \A i \in DOMAIN removed_list :
                        ~HasKey(removed_list[i], "removed_timestamp")
        /\ removed_log' # removed_log =>
              /\ RunActivity(LastRows(activity_log[ti].rows,
                                      Len(added_list) + Len(removed_list)))
              /\ available[ti].exists
              /\ RecSet(available[ti].rows) = CurrentRecs
      ]_vars

\* the three writes of a run are done, the removal log last
C10_Witness ==
    /\ pc = "report_check"
    /\ added_list # <<>>
    /\ removed_list # <<>>
    /\ \A i \in DOMAIN removed_list : HasKey(removed_list[i], "removed_timestamp")
    /\ RecSet(available[ti].rows) = CurrentRecs

\* the time of day h:m is from 22:00 to 23:30
WindowTime(h, m) == 22 * 60 <= h * 60 + m /\ h * 60 + m <= 23 * 60 + 30

\* what the gate of the run in progress is claimed to test, on the state of
\* the target's report_log
GateOpen ==
    /\ WindowTime(Hour(now_cet), Minute(now_cet))
    /\ strftime_ymd(now_cet) \notin SentDates(ti)
    /\ config[ti].send_daily_report

\* C11: the gate is true exactly when the run's time is in the window 22:00 to
\* 23:30, no row of the target's report_log carries today's date and the
\* target's report flag is set: a summary is composed only then, a run that
\* ends without a summary had one of the three false, and when a run ends
\* every row of a report_log is of an instant in the window and of a target
\* whose flag is set
C11_GateExactly ==
    /\ pc \in {"summary", "record_sent"} => GateOpen
    /\ (pc = "finished" /\ report_email = None) => ~GateOpen
    /\ (pc = "finished" /\ report_email # None) => strftime_ymd(now_cet) \in SentDates(ti)
    /\ pc = "finished" =>
          \A t \in Targets : \A i \in DOMAIN report_log[t].rows :
              /\ config[t].send_daily_report
              /\ WindowTime(Get(report_log[t].rows[i], "sent_time_cet")[2],
                            Get(report_log[t].rows[i], "sent_time_cet")[3])

\* in one invocation inside the window the first target has recorded its
\* report and the second, whose flag is not set, has ended without one
C11_Witness ==
    /\ pc = "finished"
    /\ ti = 2
    /\ ~config[2].send_daily_report
    /\ WindowTime(Hour(now_cet), Minute(now_cet))
    /\ report_email = None
    /\ report_log[2] = NoFile
    /\ strftime_ymd(now_cet) \in SentDates(1)

\* C12: evaluating the gate changes no file, and a gate that finds the window
\* open, no row for today and the flag set answers true and leaves all three
\* as they were, so that evaluating it again answers true again; report_log
\* changes only when a send is recorded
C12_GateIsPure ==
    [][ /\ (pc = "report_check" /\ pc' # "crashed") =>
              /\ files' = files
              /\ GateOpen => (pc' = "summary" /\ GateOpen')
              /\ ~GateOpen => (pc' = "finished" /\ ~GateOpen')
        /\ report_log' # report_log => pc = "record_sent"
      ]_vars

\* the gate has answered true on a report_log that holds the row of an
\* earlier day, and the log is as it was read
C12_Witness ==
    /\ pc = "summary"
    /\ GateOpen
    /\ report_log[ti].exists
    /\ SentDates(ti) # {}

\* the snapshots at hand when a run has computed its delta: the fetched list,
\* the list read from the snapshot file, and the snapshot files as they are
SnapshotsAtHand ==
    {current_residences[1], previous_residences}
        \cup {read_csv_to_list(available[t]) : t \in Targets}

\* C13: the delta is antisymmetric: for snapshots A and B, what is added from
\* B to A is what is removed from A to B, and what is removed from B to A is
\* what is added from A to B; in particular the delta the run has computed is
\* the one of the swapped arguments with its two parts exchanged
C13_DeltaAntisymmetric ==
    pc = "alert" =>
        /\ \A A, B \in SnapshotsAtHand :
              /\ added_of(HashSet(A), HashSet(B)) = removed_of(HashSet(B), HashSet(A))
              /\ removed_of(HashSet(A), HashSet(B)) = added_of(HashSet(B), HashSet(A))
        /\ HashSet(added_list)
              = removed_of(HashSet(previous_residences), HashSet(current_residences[1]))
        /\ HashSet(removed_list)
              = added_of(HashSet(previous_residences), HashSet(current_residences[1]))

\* a delta was computed between two snapshots that share a listing and each
\* hold a listing the other lacks
C13_Witness ==
    /\ pc = "alert"
    /\ HashSet(current_residences[1]) \cap HashSet(previous_residences) # {}
    /\ HashSet(added_list) # {}
    /\ HashSet(removed_list) # {}
    /\ HashSet(added_list) \cap HashSet(removed_list) = {}

\* C14: a step of the run of a target changes no file of another target, the
\* list the delta is computed against is the target's own snapshot, and a
\* summary is entered only on the word of the target's own report_log
C14_NamespaceIsolation ==
    [][ /\ \A t \in Targets \ {ti} :
              /\ available'[t] = available[t]
              /\ activity_log'[t] = activity_log[t]
              /\ removed_log'[t] = removed_log[t]
              /\ report_log'[t] = report_log[t]
        /\ (pc = "read_previous" /\ pc' # "crashed") =>
              previous_residences' = read_csv_to_list(available[ti])
        /\ (pc = "report_check" /\ pc' # "crashed") =>
              (pc' = "summary" <=> GateOpen)
      ]_vars

\* the second target, of which no file exists, composes its summary on a day
\* for which the first target has a snapshot and has recorded its report
C14_Witness ==
    /\ pc = "summary"
    /\ ti = 2
    /\ available[2] = NoFile
    /\ activity_log[2] = NoFile
    /\ removed_log[2] = NoFile
    /\ report_log[2] = NoFile
    /\ available[1].rows # <<>>
    /\ strftime_ymd(now_cet) \in SentDates(1)

\* the log new holds the log old, record for record, then possibly more
Extends(old, new) == (old.exists => new.exists) /\ IsAppend(old.rows, new.rows)

\* C15: the activity log, the removal log and the report log only grow at
\* their end: every step leaves the records a log held as a prefix of what it
\* holds afterwards; an append of no records returns the records as they
\* were, and a run that has nothing to append to a log leaves its file alone
C15_AppendOnly ==
    [][ /\ \A t \in Targets :
              /\ Extends(activity_log[t], activity_log'[t])
              /\ Extends(removed_log[t], removed_log'[t])
              /\ Extends(report_log[t], report_log'[t])
              /\ append_list_to_csv(activity_log[t], <<>>, activity_log_headers).rows
                    = activity_log[t].rows
              /\ append_list_to_csv(removed_log[t], <<>>, removed_headers).rows
                    = removed_log[t].rows
              /\ append_list_to_csv(report_log[t], <<>>, report_log_headers).rows
                    = report_log[t].rows
        /\ (pc \in {"alert", "log_activity", "write_snapshot", "log_removed"}
              /\ removed_list = <<>>) => removed_log' = removed_log
        /\ (pc \in {"alert", "log_activity", "write_snapshot", "log_removed"}
              /\ added_list = <<>> /\ removed_list = <<>>) => activity_log' = activity_log
      ]_vars

\* the three logs of a target hold the records of more than one run: two
\* reports, activity of two instants, and removals
C15_Witness ==
    /\ pc = "finished"
    /\ Len(report_log[ti].rows) >= 2
    /\ \E i, j \in DOMAIN activity_log[ti].rows :
          /\ i < j
          /\ Get(activity_log[ti].rows[i], "timestamp_cet")
                # Get(activity_log[ti].rows[j], "timestamp_cet")
    /\ removed_log[ti].rows # <<>>

\* the records old and new are one listing but for the price
PriceOnlyChange(old, new) ==
    /\ old.price # new.price
    /\ \A k \in Fields \ {"price"} : old[k] = new[k]

\* the rows of the given status and link
RowsOf(rows, status, link) ==
    {i \in DOMAIN rows : Get(rows[i], "status") = status /\ Get(rows[i], "link") = link}

\* the fetch of the run in progress succeeded and its change phase is just over
ChangePhaseOver == pc = "report_check" /\ response = "ok"

\* C16: when a fetched listing differs from a persisted one in its price only,
\* the delta holds the old record as removed and the new one as added, and once
\* the change phase is over the activity log has gained exactly one 'removed'
\* row, the old record, and one 'added' row, the new record, for that link, the
\* removal log has gained the old record and the snapshot holds the new one
C16_PriceChangeIsRemovalAndAddition ==
    (pc = "alert" \/ ChangePhaseOver) =>
    \A old \in PreviousRecs : \A new \in CurrentRecs :
        PriceOnlyChange(old, new) =>
            /\ pc = "alert" =>
                  /\ old \in RecSet(removed_list) /\ old \notin RecSet(added_list)
                  /\ new \in RecSet(added_list) /\ new \notin RecSet(removed_list)
            /\ ChangePhaseOver =>
                  LET gained == LastRows(activity_log[ti].rows,
                                         Len(added_list) + Len(removed_list))
                      removals == LastRows(removed_log[ti].rows, Len(removed_list))
                  IN  /\ old \in RecSet(removed_list)
                      /\ new \in RecSet(added_list)
                      /\ Cardinality(RowsOf(gained, "removed", old.link)) = 1
                      /\ Cardinality(RowsOf(gained, "added", new.link)) = 1
                      /\ \A i \in RowsOf(gained, "removed", old.link) : Rec(gained[i]) = old
                      /\ \A i \in RowsOf(gained, "added", new.link) : Rec(gained[i]) = new
                      /\ old \in RecSet(removals)
                      /\ new \in RecSet(available[ti].rows)
                      /\ old \notin RecSet(available[ti].rows)

\* the run that found "Res A" persisted and fetched it at another price has
\* logged the removal of the one and the addition of the other
C16_Witness ==
    /\ ChangePhaseOver
    /\ Rec(ResA) \in PreviousRecs
    /\ Rec(ResC) \in CurrentRecs
    /\ Rec(ResA) \in RecSet(removed_log[ti].rows)
    /\ Rec(ResC) \in RecSet(available[ti].rows)

\* the price of the listing can be parsed
Parses(d) == IsFloat(price_clean(d))

\* the sections of the alert and of the summary as they were rendered
RenderedSections ==
    (IF alert_email = None THEN {}
     ELSE {alert_email[1].added, alert_email[1].removed, alert_email[1].all_available})
    \cup
    (IF report_email = None THEN {}
     ELSE {report_email[1].added, report_email[1].removed, report_email[1].all_available})

\* C17: in every rendered section of an alert or of a summary the listings
\* whose price parses are in ascending order of its integer value, and every
\* listing whose price does not parse comes after every listing whose price does
C17_AscendingUnparseableLast ==
    \A l \in RenderedSections :
        /\ \A i, j \in DOMAIN l :
              (i < j /\ Parses(l[i]) /\ Parses(l[j])) =>
                  IntOfFloat(price_clean(l[i])) <= IntOfFloat(price_clean(l[j]))
        /\ \A i, j \in DOMAIN l :
              (~Parses(l[i]) /\ Parses(l[j])) => j < i

\* where a run is during its fetch and its change phase
ChangePhase ==
    {"scrape", "read_previous", "alert", "log_activity", "write_snapshot", "log_removed"}

ListsSnapshot(l) ==
    /\ RecSet(l) = RecSet(available[ti].rows)
    /\ Len(l) = Len(available[ti].rows)

\* C19 as stated: a summary composed in a run whose fetch failed lists the
\* persisted snapshot
C19_FailedFetchReportsSnapshot ==
    (report_email # None /\ response = "RequestException") =>
        ListsSnapshot(report_email[1].all_available)

\* C19 as the code does it: the summary makes a fetch of its own, whatever
\* became of the fetch of the change phase; when that fetch fails the summary
\* lists the persisted snapshot, and when it succeeds the summary lists what
\* it returned
C19_FailedReportFetchReportsSnapshot ==
    report_email # None =>
        /\ ~report_email[1].scraped => ListsSnapshot(report_email[1].all_available)
        /\ report_email[1].scraped =>
              \E p \in Pages[ti] : /\ RecSet(report_email[1].all_available) = RecSet(p)
                                   /\ Len(report_email[1].all_available) = Len(p)

\* both fetches of a run failed and its summary lists the two listings of the
\* snapshot
C19_Witness ==
    /\ report_email # None
    /\ response = "RequestException"
    /\ ~report_email[1].scraped
    /\ Len(report_email[1].all_available) = 2
    /\ ListsSnapshot(report_email[1].all_available)

\* the set that results from the activity rows taken in order from the empty
\* set: an 'added' row adds its listing, a 'removed' row deletes it
RECURSIVE Replay(_)
Replay(rows) ==
    IF rows = <<>> THEN {}
    ELSE LET before == Replay(SubSeq(rows, 1, Len(rows) - 1))
             last == rows[Len(rows)]
         IN  CASE Get(last, "status") = "added" -> before \cup {Rec(last)}
               [] Get(last, "status") = "removed" -> before \ {Rec(last)}
               [] OTHER -> before

\* the listings of the rows, in their order
Listings(rows) == [i \in DOMAIN rows |-> Rec(rows[i])]

IsRemoved(row) == Get(row, "status") = "removed"

\* the target is not between the first and the last write of a change
Settled(t) == t # ti \/ pc \notin {"write_snapshot", "log_removed"}

\* C20: on a storage that never fails and starts without files, whenever a
\* target is not in the middle of the writes of a run its snapshot, as a set,
\* is the replay of its activity log, and its removal log lists the listings
\* of the 'removed' activity rows, in the same order
C20_SnapshotIsReplay ==
    \A t \in Targets :
        Settled(t) =>
            /\ RecSet(available[t].rows) = Replay(activity_log[t].rows)
            /\ Listings(removed_log[t].rows)
                  = Listings(SelectSeq(activity_log[t].rows, IsRemoved))

\* a target has completed a run that added listings and a later one that
\* removed one of them for another
C20_Witness ==
    /\ pc = "finished"
    /\ raised = "none"
    /\ removed_log[ti].rows # <<>>
    /\ available[ti].rows # <<>>
    /\ Len(activity_log[ti].rows) >= 4
    /\ RecSet(available[ti].rows) = Replay(activity_log[ti].rows)
    /\ RecSet(available[ti].rows) # RecSet(SelectSeq(activity_log[ti].rows, IsRemoved))

\* C21: a change is alerted and logged once: a run that fetched a set and
\* completes leaves that set as the snapshot, whatever became of its alert;
\* nothing but the snapshot write of a run changes the snapshot, a summary
\* included; a run that fetches the set of the snapshot, in any order, finds
\* no delta; and a run without a delta composes no alert and appends nothing
\* to the activity log or to the removal log
C21_ChangeLoggedOnce ==
    [][ /\ (pc' = "finished" /\ response' = "ok") =>
              RecSet(available'[ti'].rows) = CurrentRecs'
        /\ available' # available => pc = "write_snapshot"
        /\ (pc = "read_previous" /\ pc' # "crashed"
              /\ CurrentRecs = RecSet(read_csv_to_list(available[ti]))) =>
              (pc' = "report_check" /\ added_list' = <<>> /\ removed_list' = <<>>)
        /\ (added_list = <<>> /\ removed_list = <<>>) =>
              /\ alert_email' = None
              /\ activity_log' = activity_log
              /\ removed_log' = removed_log
      ]_vars

\* a run has fetched, in another order, the two listings that an earlier run
\* logged and persisted, after a report was recorded: it is at the report
\* check without a delta, an alert, or an activity row of its own instant
C21_Witness ==
    /\ pc = "report_check"
    /\ response = "ok"
    /\ Cardinality(CurrentRecs) = 2
    /\ CurrentRecs = RecSet(available[ti].rows)
    /\ Listings(current_residences[1]) # Listings(available[ti].rows)
    /\ added_list = <<>> /\ removed_list = <<>>
    /\ alert_email = None
    /\ activity_log[ti].rows # <<>>
    /\ \A i \in DOMAIN activity_log[ti].rows :
          Get(activity_log[ti].rows[i], "timestamp_cet") # isoformat(now_cet)
    /\ report_log[ti].rows # <<>>

====
